---- MODULE Spec2Model ----
(***************************************************************************)
(* Visitor check-in / check-out store (MemStorage) and the REST routes     *)
(* that drive it.                                                          *)
(*                                                                         *)
(* A JS Map is modelled as a sequence of [key, value] entries in insertion *)
(* order.  Timestamps are naturals; a null timestamp is NullNumber.  String*)
(* and boolean fields are strings; a null / undefined one is Null.         *)
(***************************************************************************)
EXTENDS Integers, Sequences, FiniteSets, TLC

VARIABLES visitors, visitorCurrentId, libraryVisits, libraryVisitCurrentId,
          users, userCurrentId, seedPc, session, pending, response

vars == <<visitors, visitorCurrentId, libraryVisits, libraryVisitCurrentId,
          users, userCurrentId, seedPc, session, pending, response>>

visitorVars == <<visitors, visitorCurrentId>>
libraryVars == <<libraryVisits, libraryVisitCurrentId>>
userVars == <<users, userCurrentId, seedPc, session>>

-----------------------------------------------------------------------------
(* Bounds *)

MaxVisitors == 2
MaxLibraryVisits == 1
MaxUsers == 1
MaxTime == 2
DayLength == 2

-----------------------------------------------------------------------------
(* Values *)

Null == "null"
NullNumber == -1
Undefined == [undefined |-> TRUE]

\* x || null on a string or boolean field: undefined, null, "" and false
\* all become null.
OrNull(x) == IF x \in {Null, "", "false"} THEN Null ELSE x

\* new Date(t).toISOString().split('T')[0]: the calendar day of t.
DateKey(t) == t \div DayLength

-----------------------------------------------------------------------------
(* Map<number, T> *)

MapKeys(m) == {m[i].key : i \in 1 .. Len(m)}

MapHas(m, k) == k \in MapKeys(m)

MapGet(m, k) ==
    IF MapHas(m, k)
    THEN m[CHOOSE i \in 1 .. Len(m) : m[i].key = k].value
    ELSE Undefined
\* Variant: setting an existing key moves its entry to the end.
MapSetMoveToEnd(m, k, v) ==
    LET rest == SelectSeq(m, LAMBDA e : e.key # k)
    IN Append(rest, [key |-> k, value |-> v])

\* Map.set: an existing key keeps its position, a new key is appended.
MapSet(m, k, v) ==
    IF MapHas(m, k)
    THEN [i \in 1 .. Len(m) |-> IF m[i].key = k THEN [key |-> k, value |-> v] ELSE m[i]]
    ELSE Append(m, [key |-> k, value |-> v])

\* Array.from(m.values())
MapValues(m) == [i \in 1 .. Len(m) |-> m[i].value]

\* Array.prototype.find: the first element whose test result is true, or
\* undefined; test[i] is the callback's result on arr[i].
Find(arr, test) ==
    IF \E i \in 1 .. Len(arr) : test[i]
    THEN arr[CHOOSE i \in 1 .. Len(arr) :
                 /\ test[i]
                 /\ \A j \in 1 .. (i - 1) : ~test[j]]
    ELSE Undefined

-----------------------------------------------------------------------------
(* MemStorage: visitor methods *)

\* Variant: the payload is spread after the defaults, so a timeOut it
\* carries survives.
createVisitorPayloadLast(vs, cur, insertVisitor) ==
    LET id == cur
        date == DateKey(insertVisitor.timeIn)
        visitor == [id |-> id,
                    fullName |-> insertVisitor.fullName,
                    idNumber |-> insertVisitor.idNumber,
                    phoneNumber |-> insertVisitor.phoneNumber,
                    visitorType |-> insertVisitor.visitorType,
                    destination |-> insertVisitor.destination,
                    timeIn |-> insertVisitor.timeIn,
                    status |-> "CheckedIn",
                    date |-> date,
                    timeOut |-> insertVisitor.timeOut,
                    institute |-> OrNull(insertVisitor.institute),
                    researchArea |-> OrNull(insertVisitor.researchArea),
                    homeAddress |-> OrNull(insertVisitor.homeAddress),
                    ticketNumber |-> OrNull(insertVisitor.ticketNumber),
                    feePaid |-> OrNull(insertVisitor.feePaid)]
    IN [visitors |-> MapSet(vs, id, visitor),
        visitorCurrentId |-> cur + 1,
        ret |-> visitor]
\* Variant: the counter is read when the record is built but advanced only
\* after the caller resumes, so it is still unchanged at the suspension.
createVisitorNoIncrement(vs, cur, insertVisitor) ==
    LET id == cur
        date == DateKey(insertVisitor.timeIn)
        visitor == [id |-> id,
                    fullName |-> insertVisitor.fullName,
                    idNumber |-> insertVisitor.idNumber,
                    phoneNumber |-> insertVisitor.phoneNumber,
                    visitorType |-> insertVisitor.visitorType,
                    destination |-> insertVisitor.destination,
                    timeIn |-> insertVisitor.timeIn,
                    status |-> "CheckedIn",
                    date |-> date,
                    timeOut |-> NullNumber,
                    institute |-> OrNull(insertVisitor.institute),
                    researchArea |-> OrNull(insertVisitor.researchArea),
                    homeAddress |-> OrNull(insertVisitor.homeAddress),
                    ticketNumber |-> OrNull(insertVisitor.ticketNumber),
                    feePaid |-> OrNull(insertVisitor.feePaid)]
    IN [visitors |-> MapSet(vs, id, visitor),
        visitorCurrentId |-> cur,
        ret |-> visitor]

createVisitor(vs, cur, insertVisitor) ==
    LET id == cur
        date == DateKey(insertVisitor.timeIn)
        visitor == [id |-> id,
                    fullName |-> insertVisitor.fullName,
                    idNumber |-> insertVisitor.idNumber,
                    phoneNumber |-> insertVisitor.phoneNumber,
                    visitorType |-> insertVisitor.visitorType,
                    destination |-> insertVisitor.destination,
                    timeIn |-> insertVisitor.timeIn,
                    status |-> "CheckedIn",
                    date |-> date,
                    timeOut |-> NullNumber,
                    institute |-> OrNull(insertVisitor.institute),
                    researchArea |-> OrNull(insertVisitor.researchArea),
                    homeAddress |-> OrNull(insertVisitor.homeAddress),
                    ticketNumber |-> OrNull(insertVisitor.ticketNumber),
                    feePaid |-> OrNull(insertVisitor.feePaid)]
    IN [visitors |-> MapSet(vs, id, visitor),
        visitorCurrentId |-> cur + 1,
        ret |-> visitor]

getVisitorById(vs, id) == MapGet(vs, id)

\* Variant: the status test is dropped from the lookup.
getVisitorByIdNumberAnyStatus(vs, idNumber) ==
    LET arr == MapValues(vs)
    IN Find(arr, [i \in 1 .. Len(arr) |-> arr[i].idNumber = idNumber])

getVisitorByIdNumber(vs, idNumber) ==
    LET arr == MapValues(vs)
    IN Find(arr, [i \in 1 .. Len(arr) |->
                     arr[i].idNumber = idNumber /\ arr[i].status = "CheckedIn"])

\* Variant: every stored record is stamped, not only the one under id.
checkOutVisitorAll(vs, id, timeOut) ==
    LET visitor == MapGet(vs, id)
    IN IF visitor = Undefined
       THEN [visitors |-> vs, ret |-> Undefined]
       ELSE LET updatedVisitor == [visitor EXCEPT !.timeOut = timeOut,
                                                  !.status = "CheckedOut"]
            IN [visitors |->
                    [i \in 1 .. Len(vs) |->
                        [key |-> vs[i].key,
                         value |-> [vs[i].value EXCEPT !.timeOut = timeOut,
                                                       !.status = "CheckedOut"]]],
                ret |-> updatedVisitor]

\* Variant: timeOut is written but status is left as it was.
checkOutVisitorKeepStatus(vs, id, timeOut) ==
    LET visitor == MapGet(vs, id)
    IN IF visitor = Undefined
       THEN [visitors |-> vs, ret |-> Undefined]
       ELSE LET updatedVisitor == [visitor EXCEPT !.timeOut = timeOut]
            IN [visitors |-> MapSet(vs, id, updatedVisitor),
                ret |-> updatedVisitor]

\* Variant: a record that is already CheckedOut is returned untouched.
checkOutVisitorOnce(vs, id, timeOut) ==
    LET visitor == MapGet(vs, id)
    IN IF visitor = Undefined
       THEN [visitors |-> vs, ret |-> Undefined]
       ELSE IF visitor.status = "CheckedOut"
       THEN [visitors |-> vs, ret |-> visitor]
       ELSE LET updatedVisitor == [visitor EXCEPT !.timeOut = timeOut,
                                                  !.status = "CheckedOut"]
            IN [visitors |-> MapSet(vs, id, updatedVisitor),
                ret |-> updatedVisitor]
\* Variant: checkout stamps the record with the day of the checkout.
checkOutVisitorRedate(vs, id, timeOut) ==
    LET visitor == MapGet(vs, id)
    IN IF visitor = Undefined
       THEN [visitors |-> vs, ret |-> Undefined]
       ELSE LET updatedVisitor == [visitor EXCEPT !.timeOut = timeOut,
                                                  !.status = "CheckedOut",
                                                  !.date = DateKey(timeOut)]
            IN [visitors |-> MapSet(vs, id, updatedVisitor),
                ret |-> updatedVisitor]

checkOutVisitor(vs, id, timeOut) ==
    LET visitor == MapGet(vs, id)
    IN IF visitor = Undefined
       THEN [visitors |-> vs, ret |-> Undefined]
       ELSE LET updatedVisitor == [visitor EXCEPT !.timeOut = timeOut,
                                                  !.status = "CheckedOut"]
            IN [visitors |-> MapSet(vs, id, updatedVisitor),
                ret |-> updatedVisitor]

\* Variant: the visitorType test is missing.
updateResearcherFeeAnyType(vs, id, feePaid, ticketNumber) ==
    LET visitor == MapGet(vs, id)
    IN IF visitor = Undefined
       THEN [visitors |-> vs, ret |-> Undefined, threw |-> FALSE]
       ELSE LET updatedVisitor == [visitor EXCEPT !.feePaid = feePaid,
                                                  !.ticketNumber = ticketNumber]
            IN [visitors |-> MapSet(vs, id, updatedVisitor),
                ret |-> updatedVisitor, threw |-> FALSE]

\* Variant: ticketNumber is not written.
updateResearcherFeeNoTicket(vs, id, feePaid, ticketNumber) ==
    LET visitor == MapGet(vs, id)
    IN IF visitor = Undefined
       THEN [visitors |-> vs, ret |-> Undefined, threw |-> FALSE]
       ELSE IF visitor.visitorType # "Researcher"
       THEN [visitors |-> vs, ret |-> Undefined, threw |-> TRUE]
       ELSE LET updatedVisitor == [visitor EXCEPT !.feePaid = feePaid]
            IN [visitors |-> MapSet(vs, id, updatedVisitor),
                ret |-> updatedVisitor, threw |-> FALSE]

\* Variant: visitorType is read before the record is tested for existence,
\* so an unknown id throws.
updateResearcherFeeTypeFirst(vs, id, feePaid, ticketNumber) ==
    LET visitor == MapGet(vs, id)
    IN IF visitor = Undefined
       THEN [visitors |-> vs, ret |-> Undefined, threw |-> TRUE]
       ELSE IF visitor.visitorType # "Researcher"
       THEN [visitors |-> vs, ret |-> Undefined, threw |-> TRUE]
       ELSE LET updatedVisitor == [visitor EXCEPT !.feePaid = feePaid,
                                                  !.ticketNumber = ticketNumber]
            IN [visitors |-> MapSet(vs, id, updatedVisitor),
                ret |-> updatedVisitor, threw |-> FALSE]

updateResearcherFee(vs, id, feePaid, ticketNumber) ==
    LET visitor == MapGet(vs, id)
    IN IF visitor = Undefined
       THEN [visitors |-> vs, ret |-> Undefined, threw |-> FALSE]
       ELSE IF visitor.visitorType # "Researcher"
       THEN [visitors |-> vs, ret |-> Undefined, threw |-> TRUE]
       ELSE LET updatedVisitor == [visitor EXCEPT !.feePaid = feePaid,
                                                  !.ticketNumber = ticketNumber]
            IN [visitors |-> MapSet(vs, id, updatedVisitor),
                ret |-> updatedVisitor, threw |-> FALSE]

-----------------------------------------------------------------------------
(* Request inputs *)

\* Fee data a check-in form may carry: absent, blank, or filled in.
FeeFields ==
    {[ticketNumber |-> Null, feePaid |-> Null],
     [ticketNumber |-> "", feePaid |-> "false"],
     [ticketNumber |-> "NAZ-24-0001", feePaid |-> "true"]}

\* Well-formed request bodies of POST /api/visitors.  status is not a key
\* of the insert schema; timeOut is.
ValidVisitorBodies ==
    {[fullName |-> "A", idNumber |-> n, phoneNumber |-> "0771",
      visitorType |-> ty, destination |-> "Library",
      timeIn |-> tin, timeOut |-> tout, status |-> "CheckedOut",
      institute |-> Null, researchArea |-> "", homeAddress |-> "Harare",
      ticketNumber |-> fee.ticketNumber, feePaid |-> fee.feePaid] :
        n \in {"123", "456"}, ty \in {"General", "Researcher"},
        tin \in {0, MaxTime}, tout \in {NullNumber, 1}, fee \in FeeFields}

\* Bodies that lack a required field.
InvalidVisitorBodies ==
    {[b EXCEPT !.fullName = Null] : b \in {v \in ValidVisitorBodies :
                                            v.timeIn = 0 /\ v.feePaid = Null}}
        \cup {[b EXCEPT !.timeIn = NullNumber] : b \in {v \in ValidVisitorBodies :
                                            v.timeOut = 1 /\ v.feePaid = "true"}}

\* The bodies the visitor-route specification draws from: check-ins at
\* time 0 whose fee data is absent or blank, well-formed or not.
VisitorBodies ==
    {b \in ValidVisitorBodies \cup InvalidVisitorBodies :
        b.timeIn <= 0 /\ OrNull(b.feePaid) = Null}

IdNumbers == {"123", "456", "789"}
VisitorIds == 1 .. (MaxVisitors + 1)
ClockReadings == {1, MaxTime}
FeePaidInputs == {"true", "false"}
TicketNumberInputs == {"NAZ-24-1234"}

\* insertVisitorSchema.parse: required columns must be present; keys that
\* are not part of the schema (id, status, date) are stripped.
insertVisitorSchemaValid(body) ==
    /\ body.fullName # Null
    /\ body.idNumber # Null
    /\ body.phoneNumber # Null
    /\ body.visitorType # Null
    /\ body.destination # Null
    /\ body.timeIn # NullNumber

insertVisitorSchemaParse(body) ==
    [fullName |-> body.fullName,
     idNumber |-> body.idNumber,
     phoneNumber |-> body.phoneNumber,
     visitorType |-> body.visitorType,
     destination |-> body.destination,
     timeIn |-> body.timeIn,
     timeOut |-> body.timeOut,
     institute |-> body.institute,
     researchArea |-> body.researchArea,
     homeAddress |-> body.homeAddress,
     ticketNumber |-> body.ticketNumber,
     feePaid |-> body.feePaid]

\* The last request handled: its route and input, the record the handler
\* found under the requested id before acting (Undefined when none or not
\* applicable), and the status code and JSON body it answered with.
Reply(route, arg, before, code, body) ==
    [route |-> route, arg |-> arg, before |-> before, code |-> code,
     body |-> body]

RoutePostVisitor == "POST /api/visitors"
RouteCheckout == "PATCH /api/visitors/:id/checkout"
RouteFee == "PATCH /api/visitors/:id/fee"
RouteByIdNumber == "GET /api/visitors/idnumber/:idNumber"
RoutePostLibraryVisit == "POST /api/library/visits"
RouteLibraryCheckout == "PATCH /api/library/visits/:id/checkout"

-----------------------------------------------------------------------------
(* Routes: visitors *)

\* POST /api/visitors
PostVisitor(body) ==
    /\ Len(visitors) < MaxVisitors
    /\ IF ~insertVisitorSchemaValid(body)
       THEN /\ response' = Reply(RoutePostVisitor, body, Undefined, 400,
                                 [message |-> "Invalid visitor data"])
            /\ UNCHANGED visitorVars
       ELSE LET r == createVisitor(visitors, visitorCurrentId,
                                   insertVisitorSchemaParse(body))
            IN /\ visitors' = r.visitors
               /\ visitorCurrentId' = r.visitorCurrentId
               /\ response' = Reply(RoutePostVisitor, body, Undefined, 201, r.ret)
    /\ UNCHANGED <<libraryVars, userVars, pending>>
\* Variant: checking a visitor out also checks out the library visits that
\* refer to the visitor.
PatchVisitorCheckoutCascade(id, timeOut) ==
    /\ LET r == checkOutVisitor(visitors, id, timeOut)
           arg == <<id, timeOut>>
           before == getVisitorById(visitors, id)
       IN /\ visitors' = r.visitors
          /\ libraryVisits' =
                [i \in 1 .. Len(libraryVisits) |->
                    IF r.ret # Undefined /\ libraryVisits[i].value.visitorId = id
                    THEN [libraryVisits[i] EXCEPT !.value.status = "CheckedOut",
                                                  !.value.checkOutTime = timeOut]
                    ELSE libraryVisits[i]]
          /\ response' =
                IF r.ret = Undefined
                THEN Reply(RouteCheckout, arg, before, 404,
                           [message |-> "Visitor not found"])
                ELSE Reply(RouteCheckout, arg, before, 200,
                           r.ret)
    /\ UNCHANGED <<visitorCurrentId, libraryVisitCurrentId, userVars, pending>>

\* PATCH /api/visitors/:id/checkout; timeOut is the server clock reading.
PatchVisitorCheckout(id, timeOut) ==
    /\ LET r == checkOutVisitor(visitors, id, timeOut)
           arg == <<id, timeOut>>
           before == getVisitorById(visitors, id)
       IN /\ visitors' = r.visitors
          /\ response' =
                IF r.ret = Undefined
                THEN Reply(RouteCheckout, arg, before, 404,
                           [message |-> "Visitor not found"])
                ELSE Reply(RouteCheckout, arg, before, 200,
                           r.ret)
    /\ UNCHANGED <<visitorCurrentId, libraryVars, userVars, pending>>

\* PATCH /api/visitors/:id/fee
PatchVisitorFee(id, feePaid, ticketNumber) ==
    /\ LET r == updateResearcherFee(visitors, id, feePaid, ticketNumber)
           arg == <<id, feePaid, ticketNumber>>
           before == getVisitorById(visitors, id)
       IN /\ visitors' = r.visitors
          /\ response' =
                IF r.threw
                THEN Reply(RouteFee, arg, before, 500,
                           [message |-> "Error updating researcher fee status"])
                ELSE IF r.ret = Undefined
                THEN Reply(RouteFee, arg, before, 404,
                           [message |-> "Visitor not found"])
                ELSE Reply(RouteFee, arg, before, 200, r.ret)
    /\ UNCHANGED <<visitorCurrentId, libraryVars, userVars, pending>>

\* GET /api/visitors/idnumber/:idNumber
GetVisitorByIdNumber(idNumber) ==
    /\ LET visitor == getVisitorByIdNumber(visitors, idNumber)
       IN response' =
             IF visitor = Undefined
             THEN Reply(RouteByIdNumber, idNumber, Undefined, 404,
                        [message |-> "No active visitor found with this ID number"])
             ELSE Reply(RouteByIdNumber, idNumber, Undefined, 200,
                        visitor)
    /\ UNCHANGED <<visitorVars, libraryVars, userVars, pending>>

-----------------------------------------------------------------------------
(* MemStorage: library visit methods *)

createLibraryVisit(lvs, cur, insertLibraryVisit) ==
    LET id == cur
        date == DateKey(insertLibraryVisit.checkInTime)
        libraryVisit == [id |-> id,
                         visitorId |-> insertLibraryVisit.visitorId,
                         ticketNumber |-> insertLibraryVisit.ticketNumber,
                         specificStudyArea |-> insertLibraryVisit.specificStudyArea,
                         controlOfficer |-> insertLibraryVisit.controlOfficer,
                         checkInTime |-> insertLibraryVisit.checkInTime,
                         status |-> "CheckedIn",
                         date |-> date,
                         checkOutTime |-> NullNumber,
                         materialsRequested |->
                             OrNull(insertLibraryVisit.materialsRequested),
                         notes |-> Null]
    IN [libraryVisits |-> MapSet(lvs, id, libraryVisit),
        libraryVisitCurrentId |-> cur + 1,
        ret |-> libraryVisit]

getLibraryVisitById(lvs, id) == MapGet(lvs, id)

\* Variant: checking out a visit that is already CheckedOut re-opens it.
checkOutLibraryVisitToggle(lvs, id, checkOutTime, notes) ==
    LET visit == MapGet(lvs, id)
    IN IF visit = Undefined
       THEN [libraryVisits |-> lvs, ret |-> Undefined]
       ELSE LET updatedVisit ==
                    [visit EXCEPT !.checkOutTime = checkOutTime,
                                  !.status = IF visit.status = "CheckedIn"
                                             THEN "CheckedOut" ELSE "CheckedIn",
                                  !.notes = IF OrNull(notes) # Null
                                            THEN notes ELSE visit.notes]
            IN [libraryVisits |-> MapSet(lvs, id, updatedVisit),
                ret |-> updatedVisit]
\* Variant: the notes of the request always replace the stored notes.
checkOutLibraryVisitOverwriteNotes(lvs, id, checkOutTime, notes) ==
    LET visit == MapGet(lvs, id)
    IN IF visit = Undefined
       THEN [libraryVisits |-> lvs, ret |-> Undefined]
       ELSE LET updatedVisit ==
                    [visit EXCEPT !.checkOutTime = checkOutTime,
                                  !.status = "CheckedOut",
                                  !.notes = OrNull(notes)]
            IN [libraryVisits |-> MapSet(lvs, id, updatedVisit),
                ret |-> updatedVisit]

\* Variant: the test for a missing visit is absent, so an unknown id gets a
\* record of the three fields the checkout writes.
checkOutLibraryVisitNoGuard(lvs, id, checkOutTime, notes) ==
    LET visit == MapGet(lvs, id)
        updatedVisit ==
            IF visit = Undefined
            THEN [checkOutTime |-> checkOutTime, status |-> "CheckedOut",
                  notes |-> OrNull(notes)]
            ELSE [visit EXCEPT !.checkOutTime = checkOutTime,
                               !.status = "CheckedOut",
                               !.notes = IF OrNull(notes) # Null
                                         THEN notes ELSE visit.notes]
    IN [libraryVisits |-> MapSet(lvs, id, updatedVisit), ret |-> updatedVisit]

checkOutLibraryVisit(lvs, id, checkOutTime, notes) ==
    LET visit == MapGet(lvs, id)
    IN IF visit = Undefined
       THEN [libraryVisits |-> lvs, ret |-> Undefined]
       ELSE LET updatedVisit ==
                    [visit EXCEPT !.checkOutTime = checkOutTime,
                                  !.status = "CheckedOut",
                                  !.notes = IF OrNull(notes) # Null
                                            THEN notes ELSE visit.notes]
            IN [libraryVisits |-> MapSet(lvs, id, updatedVisit),
                ret |-> updatedVisit]

-----------------------------------------------------------------------------
(* Routes: library visits *)

\* Request bodies of POST /api/library/visits.  visitorId is not checked
\* against the visitor collection; checkOutTime and notes are keys of the
\* insert schema.
ValidLibraryVisitBodies ==
    {[visitorId |-> vid, ticketNumber |-> "NAZ-24-1234",
      specificStudyArea |-> "Maps", materialsRequested |-> m,
      controlOfficer |-> "Officer", checkInTime |-> tin,
      checkOutTime |-> tout, notes |-> nt] :
        vid \in {1, MaxVisitors + 1}, m \in {"", "Atlas"}, tin \in {0, MaxTime},
        tout \in {NullNumber, 1}, nt \in {Null, "early"}}

InvalidLibraryVisitBodies ==
    {[b EXCEPT !.ticketNumber = Null] : b \in {v \in ValidLibraryVisitBodies :
                                                v.notes = Null /\ v.checkInTime = 0}}

LibraryVisitBodies == ValidLibraryVisitBodies \cup InvalidLibraryVisitBodies

LibraryVisitIds == 1 .. (MaxLibraryVisits + 1)
NotesInputs == {Null, "", "returned"}

\* insertLibraryVisitSchema.parse
insertLibraryVisitSchemaValid(body) ==
    /\ body.visitorId # NullNumber
    /\ body.ticketNumber # Null
    /\ body.specificStudyArea # Null
    /\ body.controlOfficer # Null
    /\ body.checkInTime # NullNumber

\* POST /api/library/visits
PostLibraryVisit(body) ==
    /\ Len(libraryVisits) < MaxLibraryVisits
    /\ IF ~insertLibraryVisitSchemaValid(body)
       THEN /\ response' = Reply(RoutePostLibraryVisit, body, Undefined, 400,
                                 [message |-> "Invalid library visit data"])
            /\ UNCHANGED libraryVars
       ELSE LET r == createLibraryVisit(libraryVisits, libraryVisitCurrentId, body)
            IN /\ libraryVisits' = r.libraryVisits
               /\ libraryVisitCurrentId' = r.libraryVisitCurrentId
               /\ response' = Reply(RoutePostLibraryVisit, body, Undefined, 201, r.ret)
    /\ UNCHANGED <<visitorVars, userVars, pending>>

\* PATCH /api/library/visits/:id/checkout
PatchLibraryVisitCheckout(id, checkOutTime, notes) ==
    /\ LET r == checkOutLibraryVisit(libraryVisits, id, checkOutTime, notes)
           arg == <<id, checkOutTime, notes>>
           before == getLibraryVisitById(libraryVisits, id)
       IN /\ libraryVisits' = r.libraryVisits
          /\ response' =
                IF r.ret = Undefined
                THEN Reply(RouteLibraryCheckout, arg, before, 404,
                           [message |-> "Library visit not found"])
                ELSE Reply(RouteLibraryCheckout, arg, before, 200,
                           r.ret)
    /\ UNCHANGED <<libraryVisitCurrentId, visitorVars, userVars, pending>>

-----------------------------------------------------------------------------
(* MemStorage: users, and the session of one client *)

\* bcrypt.hash and bcrypt.compare: a hash is not the password, and a
\* password matches exactly the hashes made from it.
Hash(password) == <<"$2b$10$", password>>
Compare(password, hash) == hash = Hash(password)

\* The accounts seedDefaultUsers creates, in order.  createdAt is read by
\* no operation and is left out of user records.
DefaultUsers ==
    <<[username |-> "admin", password |-> "admin123",
       fullName |-> "System Administrator", role |-> "Admin",
       email |-> "admin@archives.gov.zw"],
      [username |-> "reception", password |-> "reception123",
       fullName |-> "Reception Staff", role |-> "Receptionist",
       email |-> "reception@archives.gov.zw"],
      [username |-> "accounts", password |-> "accounts123",
       fullName |-> "Accounts Staff", role |-> "Accountant",
       email |-> "accounts@archives.gov.zw"],
      [username |-> "library", password |-> "library123",
       fullName |-> "Library Staff", role |-> "LibraryOfficer",
       email |-> "library@archives.gov.zw"]>>
\* Variant: the default accounts take the ids 1 to 4 by position instead of
\* the next value of the counter.
seedDefaultUsersFixedIds ==
    /\ seedPc < Len(DefaultUsers)
    /\ LET d == DefaultUsers[seedPc + 1]
           user == [id |-> seedPc + 1,
                    username |-> d.username,
                    password |-> Hash(d.password),
                    fullName |-> d.fullName,
                    role |-> d.role,
                    email |-> d.email,
                    lastLogin |-> NullNumber]
       IN /\ users' = MapSet(users, user.id, user)
          /\ userCurrentId' = userCurrentId + 1
    /\ seedPc' = seedPc + 1
    /\ UNCHANGED <<session, response, visitorVars, libraryVars, pending>>

\* seedDefaultUsers, started by the constructor and suspended at each
\* await bcrypt.hash: one step runs from one await to the next and creates
\* the next default account.  seedPc counts the accounts created.
seedDefaultUsers ==
    /\ seedPc < Len(DefaultUsers)
    /\ LET d == DefaultUsers[seedPc + 1]
           user == [id |-> userCurrentId,
                    username |-> d.username,
                    password |-> Hash(d.password),
                    fullName |-> d.fullName,
                    role |-> d.role,
                    email |-> d.email,
                    lastLogin |-> NullNumber]
       IN /\ users' = MapSet(users, user.id, user)
          /\ userCurrentId' = userCurrentId + 1
    /\ seedPc' = seedPc + 1
    /\ UNCHANGED <<session, response, visitorVars, libraryVars, pending>>

getUserByUsername(us, username) ==
    LET arr == MapValues(us)
    IN Find(arr, [i \in 1 .. Len(arr) |-> arr[i].username = username])

\* Variant: the id is read without advancing the counter.
createUserNoIncrement(us, cur, insertUser) ==
    LET id == cur
        user == [id |-> id,
                 username |-> insertUser.username,
                 password |-> insertUser.password,
                 fullName |-> insertUser.fullName,
                 role |-> insertUser.role,
                 email |-> OrNull(insertUser.email),
                 lastLogin |-> NullNumber]
    IN [users |-> MapSet(us, id, user), userCurrentId |-> cur, ret |-> user]

createUser(us, cur, insertUser) ==
    LET id == cur
        user == [id |-> id,
                 username |-> insertUser.username,
                 password |-> insertUser.password,
                 fullName |-> insertUser.fullName,
                 role |-> insertUser.role,
                 email |-> OrNull(insertUser.email),
                 lastLogin |-> NullNumber]
    IN [users |-> MapSet(us, id, user), userCurrentId |-> cur + 1, ret |-> user]

updateUserLastLogin(us, id, now) ==
    LET user == MapGet(us, id)
    IN IF user = Undefined
       THEN [users |-> us, ret |-> Undefined]
       ELSE LET updatedUser == [user EXCEPT !.lastLogin = now]
            IN [users |-> MapSet(us, id, updatedUser), ret |-> updatedUser]

\* Variant: any logged-in user passes, as under isAuthenticated.
hasRoleAnyUser(roles, sessionUser) ==
    IF sessionUser = Undefined THEN 401 ELSE 200

\* hasRole(roles): the status the middleware answers with, or 200 when it
\* calls next().
hasRole(roles, sessionUser) ==
    IF sessionUser = Undefined THEN 401
    ELSE IF sessionUser.role \in roles THEN 200
    ELSE 403

Usernames == {"admin", "reception", "nobody"}
Passwords == {"admin123", "reception123"}

ValidUserBodies ==
    [username : {"clerk"}, password : {"clerk123"}, fullName : {"Records Clerk"},
     role : {"Receptionist"}, email : {Null, ""}]

InvalidUserBodies ==
    {[b EXCEPT !.username = Null] : b \in {v \in ValidUserBodies : v.email = Null}}

UserBodies == ValidUserBodies \cup InvalidUserBodies

\* insertUserSchema.parse: username, password, fullName and role are
\* required strings; email is optional.
insertUserSchemaValid(body) ==
    /\ body.username # Null
    /\ body.password # Null
    /\ body.fullName # Null
    /\ body.role # Null

RouteLogin == "POST /api/auth/login"
RouteLogout == "GET /api/auth/logout"
RoutePostUser == "POST /api/users"

SessionUser(user) ==
    [id |-> user.id, username |-> user.username, fullName |-> user.fullName,
     role |-> user.role]

\* POST /api/auth/login
Login(username, password, now) ==
    /\ LET user == getUserByUsername(users, username)
       IN IF user = Undefined \/ ~Compare(password, user.password)
          THEN /\ response' = Reply(RouteLogin, <<username, password>>, session,
                                    401, [message |-> "Invalid credentials"])
               /\ UNCHANGED <<users, session>>
          ELSE /\ users' = updateUserLastLogin(users, user.id, now).users
               /\ session' = SessionUser(user)
               /\ response' = Reply(RouteLogin, <<username, password>>, session,
                                    200, SessionUser(user))
    /\ UNCHANGED <<userCurrentId, seedPc, visitorVars, libraryVars, pending>>

\* GET /api/auth/logout
Logout ==
    /\ session' = Undefined
    /\ response' = Reply(RouteLogout, <<>>, session, 200,
                         [message |-> "Logout successful"])
    /\ UNCHANGED <<users, userCurrentId, seedPc, visitorVars, libraryVars, pending>>

\* POST /api/users, behind hasRole(["Admin"]); the reply leaves out the
\* password.  At most MaxUsers accounts are created through the route.
PostUser(body) ==
    /\ Len(users) - seedPc < MaxUsers \/ hasRole({"Admin"}, session) # 200
    /\ LET status == hasRole({"Admin"}, session)
       IN IF status # 200
          THEN /\ response' = Reply(RoutePostUser, body, session, status,
                                    [message |-> IF status = 401
                                                 THEN "Unauthorized"
                                                 ELSE "Forbidden: Insufficient permissions"])
               /\ UNCHANGED <<users, userCurrentId>>
          ELSE IF ~insertUserSchemaValid(body)
          THEN /\ response' = Reply(RoutePostUser, body, session, 400,
                                    [message |-> "Invalid user data"])
               /\ UNCHANGED <<users, userCurrentId>>
          ELSE LET r == createUser(users, userCurrentId,
                                   [body EXCEPT !.password = Hash(body.password)])
               IN /\ users' = r.users
                  /\ userCurrentId' = r.userCurrentId
                  /\ response' = Reply(RoutePostUser, body, session, 201,
                                       [id |-> r.ret.id,
                                        username |-> r.ret.username,
                                        fullName |-> r.ret.fullName,
                                        role |-> r.ret.role,
                                        email |-> r.ret.email,
                                        lastLogin |-> r.ret.lastLogin])
    /\ UNCHANGED <<seedPc, session, visitorVars, libraryVars, pending>>
-----------------------------------------------------------------------------
(* Routes: requests handled concurrently *)

\* A handler runs without interruption up to its `await storage...`; the
\* storage method it calls has no await of its own, so it runs to its end
\* inside that first stretch.  The handler then waits in pending, with the
\* value the method returned, until it resumes and sends its reply.
MaxPending == 2

Without(seq, i) ==
    [j \in 1 .. (Len(seq) - 1) |-> IF j < i THEN seq[j] ELSE seq[j + 1]]

\* POST /api/visitors up to its await.  A body the schema rejects is
\* answered from the catch block without suspending.
PostVisitorCall(body) ==
    /\ Len(visitors) < MaxVisitors
    /\ Len(pending) < MaxPending
    /\ IF ~insertVisitorSchemaValid(body)
       THEN /\ response' = Reply(RoutePostVisitor, body, Undefined, 400,
                                 [message |-> "Invalid visitor data"])
            /\ UNCHANGED <<visitorVars, pending>>
       ELSE LET r == createVisitor(visitors, visitorCurrentId,
                                   insertVisitorSchemaParse(body))
            IN /\ visitors' = r.visitors
               /\ visitorCurrentId' = r.visitorCurrentId
               /\ pending' = Append(pending,
                                    [route |-> RoutePostVisitor, arg |-> body,
                                     before |-> Undefined, ret |-> r.ret])
               /\ UNCHANGED response
    /\ UNCHANGED <<libraryVars, userVars>>

\* PATCH /api/visitors/:id/checkout up to its await.
PatchVisitorCheckoutCall(id, timeOut) ==
    /\ Len(pending) < MaxPending
    /\ LET r == checkOutVisitor(visitors, id, timeOut)
       IN /\ visitors' = r.visitors
          /\ pending' = Append(pending,
                               [route |-> RouteCheckout, arg |-> <<id, timeOut>>,
                                before |-> getVisitorById(visitors, id),
                                ret |-> r.ret])
    /\ UNCHANGED <<visitorCurrentId, response, libraryVars, userVars>>

\* A suspended handler resumes and sends its reply.
ResumeAndReply(i) ==
    /\ i \in 1 .. Len(pending)
    /\ LET p == pending[i]
       IN response' =
             IF p.route = RoutePostVisitor
             THEN Reply(p.route, p.arg, p.before, 201, p.ret)
             ELSE IF p.ret = Undefined
             THEN Reply(p.route, p.arg, p.before, 404,
                        [message |-> "Visitor not found"])
             ELSE Reply(p.route, p.arg, p.before, 200, p.ret)
    /\ pending' = Without(pending, i)
    /\ UNCHANGED <<visitorVars, libraryVars, userVars>>
-----------------------------------------------------------------------------
(* Routes: login and user creation suspended at their awaits *)

\* POST /api/users up to `await bcrypt.genSalt`: the middleware and the
\* schema have run, the store is untouched.
PostUserCall(body) ==
    /\ Len(pending) < MaxPending
    /\ LET status == hasRole({"Admin"}, session)
       IN IF status # 200
          THEN /\ response' = Reply(RoutePostUser, body, session, status,
                                    [message |-> IF status = 401
                                                 THEN "Unauthorized"
                                                 ELSE "Forbidden: Insufficient permissions"])
               /\ UNCHANGED pending
          ELSE IF ~insertUserSchemaValid(body)
          THEN /\ response' = Reply(RoutePostUser, body, session, 400,
                                    [message |-> "Invalid user data"])
               /\ UNCHANGED pending
          ELSE /\ pending' = Append(pending,
                                    [route |-> RoutePostUser, arg |-> body,
                                     before |-> session, ret |-> Undefined])
               /\ UNCHANGED response
    /\ UNCHANGED <<userVars, visitorVars, libraryVars>>

\* POST /api/users from the resolved hash on: createUser runs to its end
\* and the reply follows.
PostUserCreate(i) ==
    /\ i \in 1 .. Len(pending)
    /\ pending[i].route = RoutePostUser
    /\ Len(users) - seedPc < MaxUsers
    /\ LET body == pending[i].arg
           r == createUser(users, userCurrentId,
                           [body EXCEPT !.password = Hash(body.password)])
       IN /\ users' = r.users
          /\ userCurrentId' = r.userCurrentId
          /\ response' = Reply(RoutePostUser, body, pending[i].before, 201,
                               [id |-> r.ret.id,
                                username |-> r.ret.username,
                                fullName |-> r.ret.fullName,
                                role |-> r.ret.role,
                                email |-> r.ret.email,
                                lastLogin |-> r.ret.lastLogin])
    /\ pending' = Without(pending, i)
    /\ UNCHANGED <<seedPc, session, visitorVars, libraryVars>>

\* POST /api/auth/login up to `await storage.getUserByUsername`, which has
\* read the store.
LoginCall(username, password) ==
    /\ Len(pending) < MaxPending
    /\ pending' = Append(pending,
                         [route |-> RouteLogin, arg |-> <<username, password>>,
                          before |-> session,
                          ret |-> getUserByUsername(users, username)])
    /\ UNCHANGED <<response, userVars, visitorVars, libraryVars>>

\* POST /api/auth/login from the lookup result on: the password is
\* compared with the record read earlier, updateUserLastLogin reads the
\* store anew.
LoginFinish(i, now) ==
    /\ i \in 1 .. Len(pending)
    /\ pending[i].route = RouteLogin
    /\ LET user == pending[i].ret
           arg == pending[i].arg
       IN IF user = Undefined \/ ~Compare(arg[2], user.password)
          THEN /\ response' = Reply(RouteLogin, arg, pending[i].before, 401,
                                    [message |-> "Invalid credentials"])
               /\ UNCHANGED <<users, session>>
          ELSE /\ users' = updateUserLastLogin(users, user.id, now).users
               /\ session' = SessionUser(user)
               /\ response' = Reply(RouteLogin, arg, pending[i].before, 200,
                                    SessionUser(user))
    /\ pending' = Without(pending, i)
    /\ UNCHANGED <<userCurrentId, seedPc, visitorVars, libraryVars>>

-----------------------------------------------------------------------------
(* MemStorage: reporting *)

\* The keys of the departments object literal.
Departments ==
    {"Records", "Accounts", "IT", "Admin", "Library", "HR", "Research", "Oral",
     "Secretary"}

\* Property names every object literal inherits from Object.prototype; the
\* `in` operator finds them as well as the object's own keys.
ObjectPrototypeKeys ==
    {"constructor", "toString", "toLocaleString", "valueOf", "hasOwnProperty",
     "isPrototypeOf", "propertyIsEnumerable", "__proto__"}

\* The number NaN: what ++ yields on a value that is not numeric.
NaN == -2

\* key in obj, obj an object literal given by its own properties.
In(key, obj) == key \in DOMAIN obj \cup ObjectPrototypeKeys

\* obj[key]++.  An inherited property is a function or an object, so the
\* increment stores NaN as a new own property; assigning a number to
\* __proto__ is ignored.
Increment(obj, key) ==
    IF key \in DOMAIN obj
    THEN [obj EXCEPT ![key] = IF obj[key] = NaN THEN NaN ELSE obj[key] + 1]
    ELSE IF key = "__proto__"
    THEN obj
    ELSE [k \in DOMAIN obj \cup {key} |-> IF k = key THEN NaN ELSE obj[k]]

\* Array.prototype.filter; test[i] is the callback's result on arr[i].
Filter(arr, test) ==
    LET F[i \in 0 .. Len(arr)] ==
            IF i = 0 THEN <<>>
            ELSE IF test[i] THEN Append(F[i - 1], arr[i]) ELSE F[i - 1]
    IN F[Len(arr)]

getVisitorsByDate(vs, date) ==
    LET arr == MapValues(vs)
    IN Filter(arr, [i \in 1 .. Len(arr) |-> arr[i].date = date])

getDailyVisitorSummary(vs, date) ==
    LET dayVisitors == getVisitorsByDate(vs, date)
        n == Len(dayVisitors)
        generalVisitors ==
            Len(Filter(dayVisitors,
                       [i \in 1 .. n |-> dayVisitors[i].visitorType = "General"]))
        researchers ==
            Len(Filter(dayVisitors,
                       [i \in 1 .. n |-> dayVisitors[i].visitorType = "Researcher"]))
        \* visitors.forEach: count[i] is the departments object after the
        \* first i visitors.
        count[i \in 0 .. n] ==
            IF i = 0 THEN [d \in Departments |-> 0]
            ELSE IF In(dayVisitors[i].destination, count[i - 1])
            THEN Increment(count[i - 1], dayVisitors[i].destination)
            ELSE count[i - 1]
    IN [totalVisitors |-> n,
        generalVisitors |-> generalVisitors,
        researchers |-> researchers,
        departments |-> count[n]]
getVisitorsByStatus(vs, status) ==
    LET arr == MapValues(vs)
    IN Filter(arr, [i \in 1 .. Len(arr) |-> arr[i].status = status])

\* Variant: the date is not tested.
getVisitorsByTypeAnyDate(vs, type, date) ==
    LET arr == MapValues(vs)
    IN Filter(arr, [i \in 1 .. Len(arr) |-> arr[i].visitorType = type])

getVisitorsByTypeAndDate(vs, type, date) ==
    LET arr == MapValues(vs)
    IN Filter(arr, [i \in 1 .. Len(arr) |->
                       arr[i].visitorType = type /\ arr[i].date = date])

\* A query parameter in a condition: absent and empty are both falsy.
Truthy(param) == param \notin {Null, ""}

RouteGetVisitors == "GET /api/visitors"

\* GET /api/visitors?date=&status=&type=; a missing date is the day of the
\* server clock reading now.
GetVisitors(queryDate, status, type, now) ==
    /\ LET date == IF queryDate = NullNumber THEN DateKey(now) ELSE queryDate
           result == IF Truthy(status)
                     THEN getVisitorsByStatus(visitors, status)
                     ELSE IF Truthy(type)
                     THEN getVisitorsByTypeAndDate(visitors, type, date)
                     ELSE getVisitorsByDate(visitors, date)
       IN response' = Reply(RouteGetVisitors, <<queryDate, status, type, now>>,
                            Undefined, 200, result)
    /\ UNCHANGED <<visitorVars, libraryVars, userVars, pending>>

RouteDailySummary == "GET /api/reports/daily-summary"

\* The date keys a report may be asked for: every day a timestamp can fall
\* on, and the day after.
DateKeys == 0 .. (DateKey(MaxTime) + 1)

\* GET /api/reports/daily-summary?date=; a missing date is the day of the
\* server clock reading now.
GetDailySummary(queryDate, now) ==
    /\ LET date == IF queryDate = NullNumber THEN DateKey(now) ELSE queryDate
       IN response' = Reply(RouteDailySummary, <<queryDate, now>>, Undefined,
                            200, getDailyVisitorSummary(visitors, date))
    /\ UNCHANGED <<visitorVars, libraryVars, userVars, pending>>
-----------------------------------------------------------------------------
(* Reports page: calculateAverageDuration *)

\* The rows of one report are visitor records as the page fetched them;
\* only timeIn and timeOut are read.  Timestamps of rows are in seconds.
MaxRows == 2
RowTimes == {0, 30, 3600, 7290}
Rows == [timeIn : RowTimes, timeOut : RowTimes \cup {NullNumber}]

\* The row lists of length n.
RowLists(n) == [1 .. n -> Rows]

\* new Date(t).getTime(): milliseconds.
getTime(t) == t * 1000

MillisPerMinute == 1000 * 60
MinutesPerHour == 60

\* Math.round(num / den) for den > 0: floor(x + 1/2).
MathRound(num, den) == (2 * num + den) \div (2 * den)

\* Math.floor(a / b) for b > 0.
MathFloor(a, b) == a \div b

\* a % b in JavaScript: the remainder has the sign of the dividend.
Remainder(a, b) == IF a >= 0 THEN a % b ELSE 0 - ((0 - a) % b)

\* `${hours}h ${minutes}m`
DurationText(hours, minutes) ==
    ToString(hours) \o "h " \o ToString(minutes) \o "m"

\* v.timeOut is null or an ISO string in the fetched JSON, so it is truthy
\* exactly when it is not null.
HasTimeOut(v) == v.timeOut # NullNumber

\* The sum of timeOut - timeIn over the rows of arr, in milliseconds.
TotalMillis(arr) ==
    LET acc[i \in 0 .. Len(arr)] ==
            IF i = 0 THEN 0
            ELSE acc[i - 1] + (getTime(arr[i].timeOut) - getTime(arr[i].timeIn))
    IN acc[Len(arr)]

\* Variant: the average divides by the number of all rows.
calculateAverageDurationAllRows(rows) ==
    LET visitorsWithDuration ==
            Filter(rows, [i \in 1 .. Len(rows) |-> HasTimeOut(rows[i])])
    IN IF Len(visitorsWithDuration) = 0
       THEN "-"
       ELSE LET avgMinutes == MathRound(TotalMillis(visitorsWithDuration),
                                        MillisPerMinute * Len(rows))
                hours == MathFloor(avgMinutes, MinutesPerHour)
                minutes == Remainder(avgMinutes, MinutesPerHour)
            IN DurationText(hours, minutes)

\* The sum of the durations in minutes divided by the count is
\* TotalMillis / (MillisPerMinute * count); the division is taken exactly.
calculateAverageDuration(rows) ==
    LET visitorsWithDuration ==
            Filter(rows, [i \in 1 .. Len(rows) |-> HasTimeOut(rows[i])])
    IN IF Len(visitorsWithDuration) = 0
       THEN "-"
       ELSE LET avgMinutes == MathRound(TotalMillis(visitorsWithDuration),
                                        MillisPerMinute * Len(visitorsWithDuration))
                hours == MathFloor(avgMinutes, MinutesPerHour)
                minutes == Remainder(avgMinutes, MinutesPerHour)
            IN DurationText(hours, minutes)

RouteAverage == "calculateAverageDuration"

\* The page renders the average of the rows it holds.
RenderAverage ==
    /\ response.route = RouteAverage
    /\ response.code = 0
    /\ response' = [response EXCEPT !.code = 200,
                                    !.body = calculateAverageDuration(response.arg)]
    /\ UNCHANGED <<visitorVars, libraryVars, userVars, pending>>

-----------------------------------------------------------------------------
(* Specification: the visitor routes *)

Init ==
    /\ visitors = <<>>
    /\ visitorCurrentId = 1
    /\ libraryVisits = <<>>
    /\ libraryVisitCurrentId = 1
    /\ users = <<>>
    /\ userCurrentId = 1
    /\ seedPc = 0
    /\ session = Undefined
    /\ pending = <<>>
    /\ response = Reply("", <<>>, Undefined, 0, Undefined)

Next ==
    \/ \E body \in VisitorBodies : PostVisitor(body)
    \/ \E id \in VisitorIds, t \in ClockReadings : PatchVisitorCheckout(id, t)
    \/ \E id \in VisitorIds, f \in FeePaidInputs, k \in TicketNumberInputs :
          PatchVisitorFee(id, f, k)
    \/ \E n \in IdNumbers : GetVisitorByIdNumber(n)

Spec == Init /\ [][Next]_vars

-----------------------------------------------------------------------------
(* Specification: both collections, researchers checking in with no fee  *)
(* data                                                                    *)

StoreVisitorBodies ==
    {b \in ValidVisitorBodies :
        /\ b.idNumber = "123" /\ b.visitorType = "Researcher"
        /\ b.timeIn = 0 /\ b.timeOut = 1 /\ b.feePaid = Null}

StoreLibraryVisitBodies ==
    {b \in LibraryVisitBodies :
        b.visitorId = 1 /\ b.checkInTime = 0 /\ b.checkOutTime = 1
        /\ b.materialsRequested = ""}

NextStore ==
    \/ \E body \in StoreVisitorBodies : PostVisitor(body)
    \/ \E id \in VisitorIds : PatchVisitorCheckout(id, MaxTime)
    \/ \E id \in VisitorIds, f \in {"true"}, k \in TicketNumberInputs :
          PatchVisitorFee(id, f, k)
    \/ \E n \in {"123"} : GetVisitorByIdNumber(n)
    \/ \E body \in StoreLibraryVisitBodies : PostLibraryVisit(body)
    \/ \E id \in LibraryVisitIds, t \in ClockReadings, nt \in NotesInputs \ {Null} :
          PatchLibraryVisitCheckout(id, t, nt)

SpecStore == Init /\ [][NextStore]_vars

-----------------------------------------------------------------------------
(* Specification: check-ins of any visitor type to any destination, and    *)
(* the daily summary                                                       *)

\* visitorType and destination are text columns: the insert schema takes
\* any string for them.
SummaryVisitorBodies ==
    {[b EXCEPT !.visitorType = ty, !.destination = dest] :
        b \in {v \in ValidVisitorBodies :
                  v.idNumber = "123" /\ v.timeOut = NullNumber /\ v.feePaid = Null},
        ty \in {"General", "Researcher", "Student"},
        dest \in {"Library", "Records", "Canteen", "toString"}}
        \cup {b \in InvalidVisitorBodies : b.fullName = Null /\ b.idNumber = "123"
                                             /\ b.visitorType = "General"}

NextSummary ==
    \/ \E body \in SummaryVisitorBodies : PostVisitor(body)
    \/ \E id \in VisitorIds : PatchVisitorCheckout(id, MaxTime)
    \/ \E id \in VisitorIds, k \in TicketNumberInputs : PatchVisitorFee(id, "true", k)
    \/ \E d \in DateKeys \cup {NullNumber}, now \in ClockReadings :
          GetDailySummary(d, now)

SpecSummary == Init /\ [][NextSummary]_vars
-----------------------------------------------------------------------------
(* Specification: researchers checking in on either day, checked out and   *)
(* charged on either day                                                   *)

DateVisitorBodies ==
    {b \in ValidVisitorBodies :
        /\ b.idNumber = "123" /\ b.visitorType = "Researcher"
        /\ b.timeOut = NullNumber /\ b.feePaid = Null}

NextDate ==
    \/ \E body \in DateVisitorBodies : PostVisitor(body)
    \/ \E id \in VisitorIds, t \in ClockReadings : PatchVisitorCheckout(id, t)
    \/ \E id \in VisitorIds, k \in TicketNumberInputs : PatchVisitorFee(id, "true", k)

SpecDate == Init /\ [][NextDate]_vars
-----------------------------------------------------------------------------
(* Specification: seeding, login, user creation, and creation in the other *)
(* two collections                                                         *)

NextUsers ==
    \/ seedDefaultUsers
    \/ \E u \in Usernames, p \in Passwords : Login(u, p, MaxTime)
    \/ Logout
    \/ \E body \in UserBodies : PostUser(body)
    \/ \E body \in StoreVisitorBodies : PostVisitor(body)
    \/ \E body \in StoreLibraryVisitBodies : PostLibraryVisit(body)

SpecUsers == Init /\ [][NextUsers]_vars
-----------------------------------------------------------------------------
(* Specification: checkouts and fee updates on known and unknown ids while *)
(* the default accounts are being seeded                                   *)

NextNotFound ==
    \/ seedDefaultUsers
    \/ \E body \in StoreVisitorBodies : PostVisitor(body)
    \/ \E body \in StoreLibraryVisitBodies : PostLibraryVisit(body)
    \/ \E id \in VisitorIds : PatchVisitorCheckout(id, MaxTime)
    \/ \E id \in VisitorIds, k \in TicketNumberInputs : PatchVisitorFee(id, "true", k)
    \/ \E id \in LibraryVisitIds : PatchLibraryVisitCheckout(id, MaxTime, "returned")

SpecNotFound == Init /\ [][NextNotFound]_vars
-----------------------------------------------------------------------------
(* Specification: accounts created under a username that may be taken *)

\* username is any string: the route does not look the name up before it
\* creates the account.
UsernameBodies ==
    {[b EXCEPT !.username = u] :
        b \in {v \in UserBodies : v.email = Null},
        u \in {"clerk", "admin", "library"}}

NextUsernames ==
    \/ seedDefaultUsers
    \/ \E u \in {"admin", "clerk"}, p \in {"admin123", "clerk123"} :
          Login(u, p, MaxTime)
    \/ Logout
    \/ \E body \in UsernameBodies : PostUser(body)

SpecUsernames == Init /\ [][NextUsernames]_vars
-----------------------------------------------------------------------------
(* Specification: the average duration of any list of at most MaxRows rows *)

InitAverage ==
    /\ visitors = <<>>
    /\ visitorCurrentId = 1
    /\ libraryVisits = <<>>
    /\ libraryVisitCurrentId = 1
    /\ users = <<>>
    /\ userCurrentId = 1
    /\ seedPc = 0
    /\ session = Undefined
    /\ pending = <<>>
    /\ \E n \in 0 .. MaxRows : \E rows \in RowLists(n) :
          response = Reply(RouteAverage, rows, Undefined, 0, Undefined)

NextAverage == RenderAverage

SpecAverage == InitAverage /\ [][NextAverage]_vars
-----------------------------------------------------------------------------
(* Specification: check-ins and checkouts in flight at the same time *)

ConcurrentVisitorBodies ==
    {b \in VisitorBodies :
        b.idNumber = "123" /\ b.visitorType = "General" /\ b.timeOut = NullNumber
        /\ b.feePaid = Null}

NextConcurrent ==
    \/ \E body \in ConcurrentVisitorBodies : PostVisitorCall(body)
    \/ \E id \in VisitorIds : PatchVisitorCheckoutCall(id, MaxTime)
    \/ \E i \in 1 .. MaxPending : ResumeAndReply(i)

SpecConcurrent == Init /\ [][NextConcurrent]_vars
-----------------------------------------------------------------------------
(* Specification: listing visitors of both types and both days by status,  *)
(* type and date                                                           *)

ListVisitorBodies ==
    {b \in ValidVisitorBodies :
        b.idNumber = "123" /\ b.timeOut = NullNumber /\ b.feePaid = Null}

NextList ==
    \/ \E body \in ListVisitorBodies : PostVisitor(body)
    \/ \E id \in VisitorIds : PatchVisitorCheckout(id, MaxTime)
    \/ \E d \in {NullNumber} \cup (0 .. DateKey(MaxTime)),
          s \in {Null, "", "CheckedIn", "CheckedOut"},
          ty \in {Null, "Researcher"},
          now \in ClockReadings :
          GetVisitors(d, s, ty, now)

SpecList == Init /\ [][NextList]_vars
-----------------------------------------------------------------------------
(* Specification: researchers sharing one idNumber, looked up between      *)
(* checkouts and fee updates                                               *)

NextLookup ==
    \/ \E body \in StoreVisitorBodies : PostVisitor(body)
    \/ \E id \in VisitorIds : PatchVisitorCheckout(id, MaxTime)
    \/ \E id \in VisitorIds, k \in TicketNumberInputs : PatchVisitorFee(id, "true", k)
    \/ GetVisitorByIdNumber("123")

SpecLookup == Init /\ [][NextLookup]_vars
-----------------------------------------------------------------------------
(* Specification: check-in forms that carry fee data, and fee updates *)

FeeVisitorBodies ==
    {b \in ValidVisitorBodies :
        b.idNumber = "123" /\ b.timeIn = 0 /\ b.timeOut = NullNumber}

NextFee ==
    \/ \E body \in FeeVisitorBodies : PostVisitor(body)
    \/ \E id \in VisitorIds, f \in FeePaidInputs, k \in TicketNumberInputs :
          PatchVisitorFee(id, f, k)

SpecFee == Init /\ [][NextFee]_vars
-----------------------------------------------------------------------------
(* Specification: the seeding interleaved with logins and user creations   *)
(* at every await; the pending hash of the seeding resolves in the end     *)

SeedingUserBodies ==
    {[b EXCEPT !.username = u] :
        b \in {v \in ValidUserBodies : v.email = Null},
        u \in {"clerk", "library"}}

NextSeeding ==
    \/ seedDefaultUsers
    \/ \E p \in Passwords : LoginCall("admin", p)
    \/ \E i \in 1 .. MaxPending : LoginFinish(i, MaxTime)
    \/ \E body \in SeedingUserBodies : PostUserCall(body)
    \/ \E i \in 1 .. MaxPending : PostUserCreate(i)

SpecSeeding == Init /\ [][NextSeeding]_vars /\ WF_vars(seedDefaultUsers)

-----------------------------------------------------------------------------
(* Properties *)

VisitorRecords == {visitors[i].value : i \in 1 .. Len(visitors)}

\* C1: a visitor created through POST /api/visitors is stored and returned
\* with status CheckedIn and timeOut null, whatever the payload carries.
C1_CreatedIsCheckedIn ==
    (response.route = RoutePostVisitor /\ response.code = 201) =>
        /\ response.body.status = "CheckedIn"
        /\ response.body.timeOut = NullNumber
        /\ getVisitorById(visitors, response.body.id) = response.body

\* A visitor has just been created from a payload that carried a timeOut.
C1_Witness ==
    /\ response.route = RoutePostVisitor
    /\ response.code = 201
    /\ response.arg.timeOut # NullNumber

\* C2: checking out an existing visitor id at time t sets status CheckedOut
\* and timeOut t on that record, keeps its other fields, and leaves every
\* other visitor record as it was.
C2_CheckoutEffect ==
    [][(response'.route = RouteCheckout /\ MapHas(visitors, response'.arg[1]))
       => LET id == response'.arg[1]
              t == response'.arg[2]
          IN /\ getVisitorById(visitors', id) =
                    [getVisitorById(visitors, id) EXCEPT !.status = "CheckedOut",
                                                         !.timeOut = t]
             /\ MapKeys(visitors') = MapKeys(visitors)
             /\ \A j \in MapKeys(visitors) \ {id} :
                    getVisitorById(visitors', j) = getVisitorById(visitors, j)]_vars

\* A CheckedIn visitor has just been checked out while another record is
\* stored.
C2_Witness ==
    /\ response.route = RouteCheckout
    /\ response.code = 200
    /\ response.before.status = "CheckedIn"
    /\ Len(visitors) >= 2

\* C3: every visitor record is CheckedIn exactly when its timeOut is null
\* and CheckedOut exactly when its timeOut is set.
C3_StatusMatchesTimeOut ==
    \A v \in VisitorRecords :
        /\ v.status \in {"CheckedIn", "CheckedOut"}
        /\ (v.status = "CheckedIn") <=> (v.timeOut = NullNumber)
        /\ (v.status = "CheckedOut") <=> (v.timeOut # NullNumber)

\* A checked-out researcher has just had the fee updated while another
\* visitor is still CheckedIn.
C3_Witness ==
    /\ response.route = RouteFee
    /\ response.code = 200
    /\ response.body.status = "CheckedOut"
    /\ \E v \in VisitorRecords : v.status = "CheckedIn"

\* C4: once a visitor's timeOut is non-null its value never changes.
C4_TimeOutSetOnce ==
    [][\A id \in MapKeys(visitors) :
          getVisitorById(visitors, id).timeOut # NullNumber
          => /\ MapHas(visitors', id)
             /\ getVisitorById(visitors', id).timeOut =
                    getVisitorById(visitors, id).timeOut]_vars

\* C5: checking out a visitor that is already CheckedOut answers with the
\* record, which stays CheckedOut and takes the new timeOut.
C5_SecondCheckoutOverwrites ==
    [][(/\ response'.route = RouteCheckout
        /\ MapHas(visitors, response'.arg[1])
        /\ getVisitorById(visitors, response'.arg[1]).status = "CheckedOut")
       => /\ response'.code = 200
          /\ response'.body = getVisitorById(visitors', response'.arg[1])
          /\ response'.body.status = "CheckedOut"
          /\ response'.body.timeOut = response'.arg[2]]_vars

\* A CheckedOut visitor has just been checked out again at another time.
C5_Witness ==
    /\ response.route = RouteCheckout
    /\ response.code = 200
    /\ response.before.status = "CheckedOut"
    /\ response.before.timeOut # response.body.timeOut

\* The ids of the records of a collection whose status is CheckedOut.
CheckedOutIds(m) ==
    {m[i].key : i \in {j \in 1 .. Len(m) : m[j].value.status = "CheckedOut"}}

\* C6: no step takes a CheckedOut visitor or library visit back to
\* CheckedIn (or removes it).
C6_CheckedOutIsTerminal ==
    [][/\ CheckedOutIds(visitors) \subseteq CheckedOutIds(visitors')
       /\ CheckedOutIds(libraryVisits) \subseteq CheckedOutIds(libraryVisits')]_vars

\* A CheckedOut library visit has just been checked out again, and a
\* CheckedOut visitor is stored.
C6_Witness ==
    /\ response.route = RouteLibraryCheckout
    /\ response.code = 200
    /\ response.before.status = "CheckedOut"
    /\ \E v \in VisitorRecords : v.status = "CheckedOut"

\* C7: the lookup by idNumber n answers with a stored CheckedIn record whose
\* idNumber is n, and answers not-found exactly when no CheckedIn record
\* has idNumber n.
C7_ActiveLookup ==
    response.route = RouteByIdNumber =>
        LET n == response.arg
            active == {v \in VisitorRecords :
                          v.idNumber = n /\ v.status = "CheckedIn"}
        IN /\ response.code \in {200, 404}
           /\ (response.code = 404) <=> (active = {})
           /\ (response.code = 200) => response.body \in active
           /\ (getVisitorByIdNumber(visitors, n) = Undefined) <=> (active = {})

\* The lookup has just answered not-found for an idNumber all of whose
\* records are CheckedOut.
C7_Witness ==
    /\ response.route = RouteByIdNumber
    /\ response.code = 404
    /\ \E v \in VisitorRecords : v.idNumber = response.arg

\* C8: at most one CheckedIn record exists per idNumber.
C8_OneActivePerIdNumber ==
    \A n \in IdNumbers :
        Cardinality({i \in 1 .. Len(visitors) :
                        /\ visitors[i].value.idNumber = n
                        /\ visitors[i].value.status = "CheckedIn"}) <= 1

\* C9: a fee update on an existing visitor that is not a Researcher fails
\* with the domain error and changes nothing in the store.
C9_FeeOnNonResearcherFails ==
    [][(/\ response'.route = RouteFee
        /\ MapHas(visitors, response'.arg[1])
        /\ getVisitorById(visitors, response'.arg[1]).visitorType # "Researcher")
       => /\ response'.code = 500
          /\ response'.body \notin VisitorRecords'
          /\ UNCHANGED <<visitors, visitorCurrentId, libraryVisits,
                         libraryVisitCurrentId>>]_vars

\* A fee update on a General visitor has just been refused.
C9_Witness ==
    /\ response.route = RouteFee
    /\ response.code = 500
    /\ response.before.visitorType = "General"

\* C10: a fee update on an existing Researcher sets feePaid and
\* ticketNumber on that record and changes nothing else, CheckedIn or
\* CheckedOut.
C10_FeeUpdateFrame ==
    [][(/\ response'.route = RouteFee
        /\ MapHas(visitors, response'.arg[1])
        /\ getVisitorById(visitors, response'.arg[1]).visitorType = "Researcher")
       => LET id == response'.arg[1]
              f == response'.arg[2]
              k == response'.arg[3]
          IN /\ getVisitorById(visitors', id) =
                    [getVisitorById(visitors, id) EXCEPT !.feePaid = f,
                                                         !.ticketNumber = k]
             /\ response'.code = 200
             /\ response'.body = getVisitorById(visitors', id)
             /\ MapKeys(visitors') = MapKeys(visitors)
             /\ \A j \in MapKeys(visitors) \ {id} :
                    getVisitorById(visitors', j) = getVisitorById(visitors, j)
             /\ UNCHANGED <<visitorCurrentId, libraryVisits,
                            libraryVisitCurrentId>>]_vars

\* A CheckedOut researcher has just had fee and ticket changed.
C10_Witness ==
    /\ response.route = RouteFee
    /\ response.code = 200
    /\ response.before.status = "CheckedOut"
    /\ response.before.ticketNumber # response.body.ticketNumber
    /\ response.before.feePaid # response.body.feePaid

\* C11: the fee route answers 404 exactly when no visitor has the id, 500
\* exactly when the visitor exists and is not a Researcher, and 200 with
\* the updated record otherwise.
C11_FeeOutcome ==
    response.route = RouteFee =>
        LET exists == response.before # Undefined
            researcher == exists /\ response.before.visitorType = "Researcher"
        IN /\ response.code \in {200, 404, 500}
           /\ (response.code = 404) <=> ~exists
           /\ (response.code = 500) <=> (exists /\ ~researcher)
           /\ (response.code = 200) <=> researcher
           /\ (response.code = 200) =>
                 /\ response.body = getVisitorById(visitors, response.arg[1])
                 /\ response.body.feePaid = response.arg[2]
                 /\ response.body.ticketNumber = response.arg[3]

\* The fee route has just answered 404 for an id no visitor has, while a
\* General visitor (for whom it would answer 500) is stored.
C11_Witness ==
    /\ response.route = RouteFee
    /\ response.code = 404
    /\ ~MapHas(visitors, response.arg[1])
    /\ \E v \in VisitorRecords : v.visitorType = "General"

\* The stored visitors whose date is the given date key, by position in the
\* store.
VisitorsOn(date) ==
    {i \in 1 .. Len(visitors) : MapValues(visitors)[i].date = date}

\* C12: for every date key and every reachable store, the departments
\* mapping of getDailyVisitorSummary has exactly the nine fixed keys and
\* each value is an integer >= 0, also when no visitor has that date.
C12_DepartmentsShape ==
    \A date \in DateKeys :
        LET departments == getDailyVisitorSummary(visitors, date).departments
        IN /\ DOMAIN departments = Departments
           /\ \A d \in DOMAIN departments : departments[d] \in Nat

\* C13: for every date key and every store reachable through check-in,
\* checkout and fee update, generalVisitors + researchers = totalVisitors.
C13_TypesPartitionTotal ==
    \A date \in DateKeys :
        LET summary == getDailyVisitorSummary(visitors, date)
        IN summary.generalVisitors + summary.researchers = summary.totalVisitors

\* C14: each visitor of the date whose destination is one of the nine keys
\* adds exactly one to that department; a visitor with any other
\* destination changes no count and adds no key.
C14_DepartmentCounts ==
    \A date \in DateKeys :
        LET departments == getDailyVisitorSummary(visitors, date).departments
        IN /\ DOMAIN departments = Departments
           /\ \A d \in Departments :
                 departments[d] =
                     Cardinality({i \in VisitorsOn(date) :
                                     MapValues(visitors)[i].destination = d})

\* C15: POST /api/visitors stores a visitor only if visitorType is General
\* or Researcher and destination is one of the nine department codes; any
\* other body is answered 400 and leaves the collection and the id counter
\* unchanged.
C15_PostValidatesEnums ==
    [][(/\ response'.route = RoutePostVisitor
        /\ ~(/\ response'.arg.visitorType \in {"General", "Researcher"}
             /\ response'.arg.destination \in Departments))
       => (response'.code = 400 /\ UNCHANGED visitorVars)]_vars

\* C16: every stored visitor's date is the calendar day of its timeIn, as
\* computed when it was created, and no later operation changes the date
\* or the timeIn of a stored record.
C16_DateIsDayOfTimeIn ==
    [][/\ \A i \in 1 .. Len(visitors') :
              visitors'[i].value.date = DateKey(visitors'[i].value.timeIn)
       /\ \A id \in MapKeys(visitors) :
              /\ MapHas(visitors', id)
              /\ MapGet(visitors', id).date = MapGet(visitors, id).date
              /\ MapGet(visitors', id).timeIn = MapGet(visitors, id).timeIn]_vars

\* A visitor has been checked out on a day other than the day of its
\* timeIn and has had its fee recorded.
C16_Witness ==
    \E v \in VisitorRecords :
        /\ v.status = "CheckedOut"
        /\ DateKey(v.timeOut) # DateKey(v.timeIn)
        /\ v.date = DateKey(v.timeIn)
        /\ v.feePaid = "true"

\* Keys and ids of one collection agree, rise strictly in creation order
\* and lie below the collection's counter.
IdsInOrder(m, counter) ==
    /\ \A i \in 1 .. Len(m) : m[i].key = m[i].value.id /\ m[i].key < counter
    /\ \A i, j \in 1 .. Len(m) : i < j => m[i].key < m[j].key

C20_PostUserNeedsAdmin ==
    [][(response'.route = RoutePostUser /\ seedPc' = seedPc)
       => /\ session = Undefined
                => (response'.code = 401 /\ UNCHANGED <<users, userCurrentId>>)
          /\ (session # Undefined /\ session.role # "Admin")
                => (response'.code = 403 /\ UNCHANGED <<users, userCurrentId>>)
          /\ users' # users
                => /\ session # Undefined
                   /\ session.role = "Admin"
                   /\ response'.code = 201
                   /\ Len(users') = Len(users) + 1
          /\ response'.code = 201 => users' # users]_vars

\* The route has just refused the logged-in receptionist, after an
\* administrator created an account through it.
C20_Witness ==
    /\ response.route = RoutePostUser
    /\ response.code = 403
    /\ response.before # Undefined
    /\ response.before.role = "Receptionist"
    /\ \E i \in 1 .. Len(users) : users[i].value.username = "clerk"

\* C18: checking out a stored library visit sets checkOutTime to the given
\* time and status to CheckedOut; notes become the supplied notes when these
\* are non-empty and keep their prior value otherwise, so a later checkout
\* with empty notes does not erase earlier notes.
C18_LibraryCheckoutNotes ==
    [][(/\ response'.route = RouteLibraryCheckout
        /\ MapHas(libraryVisits, response'.arg[1]))
       => LET id == response'.arg[1]
              t == response'.arg[2]
              notes == response'.arg[3]
              visit == getLibraryVisitById(libraryVisits, id)
          IN /\ getLibraryVisitById(libraryVisits', id) =
                    [visit EXCEPT !.checkOutTime = t,
                                  !.status = "CheckedOut",
                                  !.notes = IF notes \notin {Null, ""}
                                            THEN notes ELSE visit.notes]
             /\ response'.body = getLibraryVisitById(libraryVisits', id)]_vars

\* A visit checked out with notes has just been checked out again with
\* empty notes and still carries the earlier notes.
C18_Witness ==
    /\ response.route = RouteLibraryCheckout
    /\ response.arg[3] = ""
    /\ response.before # Undefined
    /\ response.before.status = "CheckedOut"
    /\ response.before.notes = "returned"
    /\ getLibraryVisitById(libraryVisits, response.arg[1]).notes = "returned"

\* C19: checkOutVisitor, updateResearcherFee and checkOutLibraryVisit on an
\* id their collection does not hold report not-found, answered 404, and
\* leave the three collections and the three id counters unchanged.
C19_UnknownIdChangesNothing ==
    [][(/\ seedPc' = seedPc
        /\ \/ /\ response'.route \in {RouteCheckout, RouteFee}
              /\ ~MapHas(visitors, response'.arg[1])
           \/ /\ response'.route = RouteLibraryCheckout
              /\ ~MapHas(libraryVisits, response'.arg[1]))
       => /\ response'.code = 404
          /\ response'.before = Undefined
          /\ UNCHANGED <<users, visitors, libraryVisits, userCurrentId,
                         visitorCurrentId, libraryVisitCurrentId>>]_vars

\* A library checkout for an id no visit has was just answered 404 while
\* all three collections hold records.
C19_Witness ==
    /\ response.route = RouteLibraryCheckout
    /\ response.code = 404
    /\ ~MapHas(libraryVisits, response.arg[1])
    /\ Len(users) > 0
    /\ Len(visitors) > 0
    /\ Len(libraryVisits) > 0

\* C21: after any sequence of createUser calls, the seeding included, no
\* two user records share a username.
C21_UsernamesUnique ==
    \A i, j \in 1 .. Len(users) :
        users[i].value.username = users[j].value.username => i = j

\* The rows of the rendered list that have a timeOut, by position.
WithTimeOut(rows) == {i \in 1 .. Len(rows) : rows[i].timeOut # NullNumber}

\* C22: calculateAverageDuration returns "-", not "0h 0m", exactly when no
\* row has a timeOut, and rows without a timeOut contribute neither to the
\* sum nor to the divisor: dropping them leaves the result unchanged.
C22_SentinelAndFilter ==
    (response.route = RouteAverage /\ response.code = 200)
        => LET rows == response.arg
               kept == Filter(rows, [i \in 1 .. Len(rows) |->
                                        rows[i].timeOut # NullNumber])
           IN /\ (response.body = "-") <=> (WithTimeOut(rows) = {})
              /\ (WithTimeOut(rows) = {}) => response.body # "0h 0m"
              /\ response.body = calculateAverageDuration(kept)
              /\ \A r \in Rows :
                    r.timeOut = NullNumber =>
                        calculateAverageDuration(Append(kept, r)) = response.body

\* The average of a row without a timeOut and a row of 3600 seconds has
\* been rendered as one hour.
C22_Witness ==
    /\ response.route = RouteAverage
    /\ response.code = 200
    /\ Len(response.arg) = 2
    /\ Cardinality(WithTimeOut(response.arg)) = 1
    /\ response.body = "1h 0m"

\* C23: for a list with at least one row that has a timeOut, the result is
\* "Hh Mm" with 0 <= M <= 59 and 60*H + M the mean of timeOut - timeIn over
\* those rows in minutes, rounded to the nearest whole minute.
C23_RoundedMean ==
    (response.route = RouteAverage /\ response.code = 200
     /\ WithTimeOut(response.arg) # {})
        => LET rows == response.arg
               n == Cardinality(WithTimeOut(rows))
               SumMillis[i \in 0 .. Len(rows)] ==
                   IF i = 0 THEN 0
                   ELSE SumMillis[i - 1] +
                        (IF i \in WithTimeOut(rows)
                         THEN 1000 * (rows[i].timeOut - rows[i].timeIn) ELSE 0)
               total == SumMillis[Len(rows)]
               den == 60000 * n
           IN \E H \in -3 .. 3, M \in 0 .. 59 :
                 /\ response.body = ToString(H) \o "h " \o ToString(M) \o "m"
                 /\ 2 * (total - (60 * H + M) * den) <= den
                 /\ 2 * (total - (60 * H + M) * den) >= 0 - den

\* The positions in pending of the check-ins waiting to reply.
PendingCreates ==
    {i \in 1 .. Len(pending) : pending[i].route = RoutePostVisitor}

\* C24: at every point where another request can run, no stored visitor is
\* half written (CheckedOut goes with a timeOut, CheckedIn with none), every
\* id taken from the counter has its record stored, and the check-ins in
\* flight hold pairwise different ids, each the id of a stored record.
C24_MutationsAtomic ==
    /\ \A v \in VisitorRecords :
          (v.status = "CheckedOut") <=> (v.timeOut # NullNumber)
    /\ MapKeys(visitors) = 1 .. (visitorCurrentId - 1)
    /\ \A i \in PendingCreates : MapHas(visitors, pending[i].ret.id)
    /\ \A i, j \in PendingCreates : i # j => pending[i].ret.id # pending[j].ret.id
    /\ \A i \in 1 .. Len(pending) :
          (pending[i].route = RouteCheckout /\ pending[i].ret # Undefined)
              => MapGet(visitors, pending[i].ret.id).status = "CheckedOut"

\* Two check-ins are waiting to reply at the same time.
C24_Witness ==
    /\ Cardinality(PendingCreates) = 2
    /\ Len(visitors) = 2

\* C25: GET /api/visitors filters by precedence.  With a status (present
\* and not empty) it returns the visitors of that status on any date and of
\* any type; otherwise with a type, the visitors of that type and date;
\* otherwise the visitors of that date; a missing date is the server's
\* current day.
C25_FilterPrecedence ==
    response.route = RouteGetVisitors =>
        LET queryDate == response.arg[1]
            status == response.arg[2]
            type == response.arg[3]
            now == response.arg[4]
            date == IF queryDate = NullNumber THEN DateKey(now) ELSE queryDate
            all == MapValues(visitors)
        IN /\ response.code = 200
           /\ response.body =
                 IF status \notin {Null, ""}
                 THEN SelectSeq(all, LAMBDA v : v.status = status)
                 ELSE IF type \notin {Null, ""}
                 THEN SelectSeq(all, LAMBDA v : v.visitorType = type /\ v.date = date)
                 ELSE SelectSeq(all, LAMBDA v : v.date = date)

\* A listing by status, asked with a date and a type as well, has returned
\* a visitor of another date and another type.
C25_Witness ==
    /\ response.route = RouteGetVisitors
    /\ response.arg[1] # NullNumber
    /\ response.arg[2] = "CheckedOut"
    /\ response.arg[3] = "Researcher"
    /\ \E i \in 1 .. Len(response.body) :
          /\ response.body[i].date # response.arg[1]
          /\ response.body[i].visitorType # "Researcher"

\* C26: among the CheckedIn visitors that share an idNumber the lookup
\* returns the one with the smallest id; no operation changes the order in
\* which stored records are scanned, so once that record is checked out the
\* lookup returns the CheckedIn record with the next smallest id.
C26_FirstMatchIsSmallestId ==
    [][/\ \A i \in 1 .. Len(visitors) : visitors'[i].key = visitors[i].key
       /\ response'.route = RouteByIdNumber =>
             LET active == {v \in VisitorRecords' :
                               /\ v.idNumber = response'.arg
                               /\ v.status = "CheckedIn"}
             IN IF active = {}
                THEN response'.code = 404
                ELSE /\ response'.body \in active
                     /\ \A v \in active : response'.body.id <= v.id]_vars

\* The lookup has returned the second visitor of an idNumber after the
\* first one, fee recorded, was checked out.
C26_Witness ==
    /\ response.route = RouteByIdNumber
    /\ response.code = 200
    /\ response.body.id = 2
    /\ \E v \in VisitorRecords :
          /\ v.id = 1
          /\ v.idNumber = response.arg
          /\ v.status = "CheckedOut"
          /\ v.feePaid = "true"

\* C27: in every state reachable through the routes, a General visitor has
\* feePaid other than true and no ticketNumber.
C27_GeneralHasNoFeeData ==
    \A v \in VisitorRecords :
        v.visitorType = "General" =>
            (v.feePaid # "true" /\ v.ticketNumber = Null)

\* C28: every CheckedOut visitor has a timeOut that is not earlier than its
\* timeIn, so no visit has a negative duration.
C28_TimeOutNotBeforeTimeIn ==
    \A v \in VisitorRecords :
        v.status = "CheckedOut" => v.timeOut >= v.timeIn

\* C29: the visitor routes (create, checkout, fee update) leave every
\* library visit and the library counter unchanged, and the library routes
\* (create, checkout) leave every visitor and the visitor counter
\* unchanged; nothing cascades from one collection to the other.
C29_CollectionsIndependent ==
    [][/\ response'.route \in {RoutePostVisitor, RouteCheckout, RouteFee}
             => UNCHANGED <<libraryVisits, libraryVisitCurrentId>>
       /\ response'.route \in {RoutePostLibraryVisit, RouteLibraryCheckout}
             => UNCHANGED <<visitors, visitorCurrentId>>]_vars

\* A visitor has just been checked out while a library visit that refers
\* to the visitor stays CheckedIn.
C29_Witness ==
    /\ response.route = RouteCheckout
    /\ response.code = 200
    /\ \E i \in 1 .. Len(libraryVisits) :
          /\ libraryVisits[i].value.visitorId = response.arg[1]
          /\ libraryVisits[i].value.status = "CheckedIn"

\* The default account of position k is stored.
DefaultUserPresent(k) ==
    \E i \in 1 .. Len(users) :
        /\ users[i].value.username = DefaultUsers[k].username
        /\ users[i].value.role = DefaultUsers[k].role
        /\ users[i].value.fullName = DefaultUsers[k].fullName

\* C30: however the four seeding steps interleave with logins and user
\* creations, no two user records have the same id, no stored record is
\* replaced by another account (only its lastLogin may change), and in the
\* end all four default accounts are present.
C30_SeedingInterleaves ==
    /\ [][/\ \A i \in 1 .. Len(users') : users'[i].key = users'[i].value.id
          /\ \A i, j \in 1 .. Len(users') :
                users'[i].key = users'[j].key => i = j
          /\ Len(users') >= Len(users)
          /\ \A i \in 1 .. Len(users) :
                /\ users'[i].key = users[i].key
                /\ [users'[i].value EXCEPT !.lastLogin = NullNumber] =
                       [users[i].value EXCEPT !.lastLogin = NullNumber]]_vars
    /\ <>(\A k \in 1 .. Len(DefaultUsers) : DefaultUserPresent(k))

\* All four default accounts are stored, and an account created through
\* the route while the seeding was suspended sits before a seeded one.
C30_Witness ==
    /\ seedPc = Len(DefaultUsers)
    /\ \A k \in 1 .. Len(DefaultUsers) : DefaultUserPresent(k)
    /\ \E i, j \in 1 .. Len(users) :
          /\ i < j
          /\ users[i].value.role = "Receptionist"
          /\ users[i].value.username = "library"
          /\ users[j].value.role = "LibraryOfficer"

=============================================================================
